---- MODULE Spec2Model ----
(***************************************************************************)
(* Model of the U-interleaved tiling codec of                              *)
(* src/mesalib/src/panfrost/shared/pan_tiling.c.                           *)
(*                                                                         *)
(* Every access of the code copies one whole pixel_t.  A buffer is an      *)
(* array of elements; the code's pointers are byte offsets, and an access  *)
(* at an offset that is not the start of an element of the buffer          *)
(* (misaligned or outside) raises the fault flag.  The linear source       *)
(* holds, at byte offset s, the content s; an untouched element of a       *)
(* destination holds Junk(slot); so every element is distinguishable from  *)
(* every other.                                                            *)
(*                                                                         *)
(* The code's unsigned (32-bit) arithmetic is modelled as exact integer    *)
(* arithmetic: every coordinate, stride and offset of the model stays far  *)
(* below 2^31 and no subtraction of the code goes below zero.  The         *)
(* uint16_t parameters of the fast-path routines keep their width.         *)
(***************************************************************************)
EXTENDS Integers, Sequences, FiniteSets, TLC

\* ---------------------------------------------------------------- bounds
MaxOrigin == 17
MaxExtent == 18
MaxConcExtent == 2

\* ------------------------------------------------------ program constants
TILE_WIDTH == 16
TILE_HEIGHT == 16
PIXELS_PER_TILE == TILE_WIDTH * TILE_HEIGHT

U16 == 65536

\* ------------------------------------------------------------ bit helpers
Pow2(k) == 2 ^ k

\* a ^ b, bit by bit
RECURSIVE XorBits(_, _)
XorBits(a, b) ==
  IF a = 0 THEN b
  ELSE IF b = 0 THEN a
  ELSE (((a % 2) + (b % 2)) % 2) + 2 * XorBits(a \div 2, b \div 2)

\* a ^ b for operands of one byte
XorOfBytes == [a \in 0..255 |-> [b \in 0..255 |-> XorBits(a, b)]]

\* a ^ b: the low bytes from the table, the bits above them one by one
Xor(a, b) ==
  IF a < 256 /\ b < 256 THEN XorOfBytes[a][b]
  ELSE XorOfBytes[a % 256][b % 256] + 256 * XorBits(a \div 256, b \div 256)

Bit(v, i) == (v \div Pow2(i)) % 2

\* v & ~mask, for mask = 2^k - 1 and v >= 0
AndNot(v, mask) == v - (v % (mask + 1))

\* v & mask, for mask = 2^k - 1 and v >= 0
And(v, mask) == v % (mask + 1)

Shr(v, k) == v \div Pow2(k)

Shl(v, k) == v * Pow2(k)

MIN2(a, b) == IF a < b THEN a ELSE b

DIV_ROUND_UP(a, b) == (a + b - 1) \div b

\* ------------------------------------------------------ interleave tables
bit_duplication_table ==
  << 0, 3, 12, 15, 48, 51, 60, 63, 192, 195, 204, 207, 240, 243, 252, 255 >>

space_4_table ==
  << 0, 1, 4, 5, 16, 17, 20, 21, 64, 65, 68, 69, 80, 81, 84, 85 >>

\* as bit_duplication, with each bit moved to the odd place but not duplicated
bit_duplication_not_duplicated == [n \in 0..15 |-> 2 * space_4_table[n + 1]]

bit_duplication == [n \in 0..15 |-> bit_duplication_table[n + 1]]

\* as space_4, with the entry of 3 a copy of the entry of 2
space_4_entry_repeated == [n \in 0..15 |-> space_4_table[IF n = 3 THEN 3 ELSE n + 1]]

space_4 == [n \in 0..15 |-> space_4_table[n + 1]]

\* ---------------------------------------------------------------- formats
\* A format descriptor: bits per block, block width and height.
PlainFormats == { [bits |-> b, width |-> 1, height |-> 1] : b \in {8, 16, 32, 64, 128} }

CompressedFormats == { [bits |-> b, width |-> 4, height |-> 4] : b \in {64, 128} }

Formats == PlainFormats \cup CompressedFormats

ElemOf(desc) == desc.bits \div 8

\* shift such that sizeof(pixel_t) = 1 << shift (second argument of TILED_STORE_TYPE)
ShiftOf(elem) == CASE elem = 1 -> 0 [] elem = 2 -> 1 [] elem = 4 -> 2
                   [] elem = 8 -> 3 [] elem = 16 -> 4

\* ---------------------------------------------------------------- buffers
\* Coordinates near a tile edge: the splitter's cases are decided by the
\* low four bits of the origin and of the end of the rectangle.
Origins == { v \in 0..MaxOrigin : v % 16 \in {0, 1, 15} }

Extents == { v \in 0..MaxExtent : v % 16 \in {0, 1, 2, 15} }

\* The tiled buffer is padded to whole tiles in both axes.
TiledWidth == TILE_WIDTH * DIV_ROUND_UP(MaxOrigin + MaxExtent, TILE_WIDTH)

TiledHeight == TILE_HEIGHT * DIV_ROUND_UP(MaxOrigin + MaxExtent, TILE_HEIGHT)

LinearWidth == MaxExtent

LinearHeight == MaxExtent

TiledStride(elem) == elem * TiledWidth

LinearStride(elem) == elem * LinearWidth

\* A buffer is an array of elements (pixel_t); element slot k starts at byte
\* offset elem * k.
TiledSlots == 0..(TiledWidth * TiledHeight - 1)

LinearSlots == 0..(LinearWidth * LinearHeight - 1)

Junk(slot) == -1 - slot

\* the linear source image L: the element at byte offset s has content s
LinearImage(elem) == [k \in LinearSlots |-> elem * k]

BlankTiled == [k \in TiledSlots |-> Junk(k)]

BlankLinear == [k \in LinearSlots |-> Junk(k)]

\* ----------------------------------------------------------- memory state
\* st = [tiled, linear, fault, elem, log]: the tiled buffer, the linear
\* buffer, the flag raised by an access that is not an element of its buffer,
\* the element size sizeof(pixel_t), and the sequence of the element copies
\* made so far as pairs << dest, source >> (kept only when st.logging).
InBuffer(mem, off, elem) == off % elem = 0 /\ (off \div elem) \in DOMAIN mem

\* *outp = *inp, for pointers at byte offsets dest (tiled) and source (linear)
CopyElement(st, dest, source, is_store) ==
  IF ~InBuffer(st.tiled, dest, st.elem) \/ ~InBuffer(st.linear, source, st.elem)
  THEN [st EXCEPT !.fault = TRUE]
  ELSE LET logged == IF st.logging THEN Append(st.log, << dest, source >>) ELSE st.log
       IN  IF is_store
           THEN [st EXCEPT !.tiled[dest \div st.elem] = st.linear[source \div st.elem],
                           !.log = logged]
           ELSE [st EXCEPT !.linear[source \div st.elem] = st.tiled[dest \div st.elem],
                           !.log = logged]

\* the content of the element at byte offset off of a buffer
At(mem, off, elem) == mem[off \div elem]

MemState(t, l, f, elem) ==
  [tiled |-> t, linear |-> l, fault |-> f, elem |-> elem, logging |-> FALSE, log |-> << >>]

Logging(st) == [st EXCEPT !.logging = TRUE]

\* ------------------------------------------------- generic unaligned path
\* The loops of the code run their iterations in increasing order; the model
\* runs the iterations lo .. hi-1 of a loop as those of its first half
\* followed by those of its second half.  Completed(st) holds of every memory
\* state; testing it makes the state of the first half a computed value
\* before the second half starts.
Completed(st) == st.fault \in BOOLEAN

\* the inner loop of TILED_UNALIGNED_TYPE: iterations lo <= src_x < hi;
\* row holds the values the outer loop computed for this row
RECURSIVE UnalignedCols(_, _, _, _, _)
UnalignedCols(st, a, row, lo, hi) ==
  IF hi <= lo THEN st
  ELSE IF hi = lo + 1
  THEN LET src_x == lo
           xx == a.sx + src_x
           block_x_s == Shr(xx, a.tile_shift) * Shl(1, a.tile_shift * 2)
           index == Xor(row.expanded_y, space_4[And(xx, a.mask)])
           source == a.src + row.source_start + a.elem * src_x
           dest == row.block_start_s + a.elem * (block_x_s + index)
       IN  CopyElement(st, dest, source, a.is_store)
  ELSE LET mid == (lo + hi) \div 2
           s1 == UnalignedCols(st, a, row, lo, mid)
       IN  IF Completed(s1) THEN UnalignedCols(s1, a, row, mid, hi) ELSE s1

\* the outer loop of TILED_UNALIGNED_TYPE: iterations lo <= src_y < hi
RECURSIVE UnalignedRows(_, _, _, _)
UnalignedRows(st, a, lo, hi) ==
  IF hi <= lo THEN st
  ELSE IF hi = lo + 1
  THEN LET src_y == lo
           yy == a.sy + src_y
           block_y == AndNot(yy, a.mask)
       IN  UnalignedCols(st, a, [block_start_s |-> block_y * a.dst_stride,
                                 source_start |-> src_y * a.src_stride,
                                 expanded_y |-> bit_duplication[And(yy, a.mask)]], 0, a.w)
  ELSE LET mid == (lo + hi) \div 2
           s1 == UnalignedRows(st, a, lo, mid)
       IN  IF Completed(s1) THEN UnalignedRows(s1, a, mid, hi) ELSE s1

\* as TILED_UNALIGNED_TYPE, with the mask of a 16x16 tile whatever tile_shift
TILED_UNALIGNED_TYPE_mask_15(st, src, sx, sy, w, h, dst_stride, src_stride, elem, is_store, tile_shift) ==
  UnalignedRows(st, [src |-> src, sx |-> sx, sy |-> sy, w |-> w, h |-> h,
                     dst_stride |-> dst_stride, src_stride |-> src_stride,
                     elem |-> elem, is_store |-> is_store, tile_shift |-> tile_shift,
                     mask |-> 15], 0, h)

TILED_UNALIGNED_TYPE(st, src, sx, sy, w, h, dst_stride, src_stride, elem, is_store, tile_shift) ==
  UnalignedRows(st, [src |-> src, sx |-> sx, sy |-> sy, w |-> w, h |-> h,
                     dst_stride |-> dst_stride, src_stride |-> src_stride,
                     elem |-> elem, is_store |-> is_store, tile_shift |-> tile_shift,
                     mask |-> Shl(1, tile_shift) - 1], 0, h)

\* as panfrost_access_tiled_image_generic, with the tile shifts of the two
\* kinds of format exchanged
panfrost_access_tiled_image_generic_shifts_exchanged(st, src, sx, sy, w, h, dst_stride, src_stride, desc, is_store) ==
  LET bpp == desc.bits
  IN  IF desc.width > 1
      THEN TILED_UNALIGNED_TYPE(st, src, sx, sy,
                                DIV_ROUND_UP(w, desc.width), DIV_ROUND_UP(h, desc.height),
                                dst_stride, src_stride, bpp \div 8, is_store, 4)
      ELSE TILED_UNALIGNED_TYPE(st, src, sx, sy, w, h,
                                dst_stride, src_stride, bpp \div 8, is_store, 2)

\* src is the byte offset of the linear-side pointer into the linear buffer;
\* the tiled-side pointer is always the base of the tiled buffer.
panfrost_access_tiled_image_generic(st, src, sx, sy, w, h, dst_stride, src_stride, desc, is_store) ==
  LET bpp == desc.bits
  IN  IF desc.width > 1
      THEN TILED_UNALIGNED_TYPE(st, src, sx, sy,
                                DIV_ROUND_UP(w, desc.width), DIV_ROUND_UP(h, desc.height),
                                dst_stride, src_stride, bpp \div 8, is_store, 2)
      ELSE TILED_UNALIGNED_TYPE(st, src, sx, sy, w, h,
                                dst_stride, src_stride, bpp \div 8, is_store, 4)

\* ------------------------------------------------------ aligned fast path
\* for (uint8_t i = 0; i < 16; ++i): iterations lo <= i < hi, with dest and
\* source as they are at the start of the tile
RECURSIVE StoreTilePixels(_, _, _, _, _, _, _)
StoreTilePixels(st, dest, source, expanded_y, a, lo, hi) ==
  IF hi <= lo THEN st
  ELSE IF hi = lo + 1
  THEN LET i == lo
           index == Xor(expanded_y, Shl(space_4[i], a.shift))
       IN  CopyElement(st, dest + index, source + a.elem * i, TRUE)
  ELSE LET mid == (lo + hi) \div 2
           s1 == StoreTilePixels(st, dest, source, expanded_y, a, lo, mid)
       IN  IF Completed(s1) THEN StoreTilePixels(s1, dest, source, expanded_y, a, mid, hi)
           ELSE s1

\* for (; source < source_end; dest += (PIXELS_PER_TILE << shift)):
\* iterations lo <= t < hi, with dest and source as they are at the start of
\* the row; iteration t starts at source + 16 t elements
RECURSIVE StoreRowTiles(_, _, _, _, _, _, _)
StoreRowTiles(st, dest, source, expanded_y, a, lo, hi) ==
  IF hi <= lo THEN st
  ELSE IF hi = lo + 1
  THEN LET t == lo
       IN  StoreTilePixels(st, dest + t * Shl(PIXELS_PER_TILE, a.shift),
                           source + t * 16 * a.elem, expanded_y, a, 0, 16)
  ELSE LET mid == (lo + hi) \div 2
           s1 == StoreRowTiles(st, dest, source, expanded_y, a, lo, mid)
       IN  IF Completed(s1) THEN StoreRowTiles(s1, dest, source, expanded_y, a, mid, hi)
           ELSE s1

\* the outer loop of TILED_STORE_TYPE: iterations lo <= src_y < hi
RECURSIVE StoreRows(_, _, _, _)
StoreRows(st, a, lo, hi) ==
  IF hi <= lo THEN st
  ELSE IF hi = lo + 1
  THEN LET src_y == lo
           y == a.sy + src_y
           dest_start == Shr(a.sx, 4) * PIXELS_PER_TILE * a.elem
           block_y == AndNot(y, 15) % U16
           dest == dest_start + (block_y * a.dst_stride)
           source == a.src + (src_y * a.src_stride)
           \* the tile loop runs while source < source_end = source + w
           tiles == DIV_ROUND_UP(a.w, 16)
           expanded_y == Shl(bit_duplication[And(y, 15)], a.shift)
       IN  StoreRowTiles(st, dest, source, expanded_y, a, 0, tiles)
  ELSE LET mid == (lo + hi) \div 2
           s1 == StoreRows(st, a, lo, mid)
       IN  IF Completed(s1) THEN StoreRows(s1, a, mid, hi) ELSE s1

\* as TILED_STORE_TYPE, with dest_start left at the first tile column
TILED_STORE_TYPE_first_column(st, src, sx, sy, w, h, dst_stride, src_stride, elem) ==
  StoreRows(st, [src |-> src, sx |-> 0, sy |-> sy % U16, w |-> w % U16, h |-> h % U16,
                 dst_stride |-> dst_stride, src_stride |-> src_stride,
                 elem |-> elem, shift |-> ShiftOf(elem)], 0, h % U16)

\* panfrost_store_tiled_image_<pixel_t>; sx, sy, w, h are uint16_t parameters
TILED_STORE_TYPE(st, src, sx, sy, w, h, dst_stride, src_stride, elem) ==
  StoreRows(st, [src |-> src, sx |-> sx % U16, sy |-> sy % U16, w |-> w % U16, h |-> h % U16,
                 dst_stride |-> dst_stride, src_stride |-> src_stride,
                 elem |-> elem, shift |-> ShiftOf(elem)], 0, h % U16)

\* -------------------------------------------------------- region splitter
\* as OFFSET, with the x distance counted in bytes instead of elements
OFFSET_x_in_bytes(c, px, py) ==
  ((py - c.orig_y) * c.src_stride) + (px - c.orig_x)

\* OFFSET(src, _x, _y): the source pointer advanced to pixel (_x, _y),
\* as a byte offset from the src argument
OFFSET(c, px, py) ==
  (((((py - c.orig_y)) * c.src_stride))
     + ((((px - c.orig_x)) * (c.bpp \div 8))))

\* one call of the generic routine made by the splitter; r.calls keeps the
\* sequence of calls made so far
GenericCall(r, c, step, src, px, py, pw, ph) ==
  [r EXCEPT !.st = panfrost_access_tiled_image_generic(r.st, src, px, py, pw, ph,
                       c.dst_stride, c.src_stride, c.desc, TRUE),
            !.calls = Append(@, [step |-> step, x |-> px, y |-> py, w |-> pw, h |-> ph,
                                 src |-> src])]

\* First, tile the top portion
SplitTop(r, c) ==
  IF c.first_full_tile_y # r.y
  THEN LET dist == MIN2((c.first_full_tile_y - r.y), r.h)
           r1 == GenericCall(r, c, "top", OFFSET(c, r.x, r.y), r.x, r.y, r.w, dist)
       IN  IF dist = r.h
           THEN [r1 EXCEPT !.returned = TRUE]
           ELSE [r1 EXCEPT !.y = (r.y + dist), !.h = (r.h - dist)]
  ELSE r

\* as SplitBottom, with the working height left as it was
SplitBottom_height_kept(r, c) ==
  IF c.last_full_tile_y # (r.y + r.h)
  THEN LET dist == ((r.y + r.h) - c.last_full_tile_y)
       IN  GenericCall(r, c, "bottom", OFFSET(c, r.x, c.last_full_tile_y),
                       r.x, c.last_full_tile_y, r.w, dist)
  ELSE r

\* Next, the bottom portion
SplitBottom(r, c) ==
  IF c.last_full_tile_y # (r.y + r.h)
  THEN LET dist == ((r.y + r.h) - c.last_full_tile_y)
           r1 == GenericCall(r, c, "bottom", OFFSET(c, r.x, c.last_full_tile_y),
                             r.x, c.last_full_tile_y, r.w, dist)
       IN  [r1 EXCEPT !.h = (r.h - dist)]
  ELSE r

\* as SplitLeft, with the working x left as it was
SplitLeft_x_kept(r, c) ==
  IF c.first_full_tile_x # r.x
  THEN LET dist == MIN2((c.first_full_tile_x - r.x), r.w)
           r1 == GenericCall(r, c, "left", OFFSET(c, r.x, r.y), r.x, r.y, dist, r.h)
       IN  IF dist = r.w
           THEN [r1 EXCEPT !.returned = TRUE]
           ELSE [r1 EXCEPT !.w = (r.w - dist)]
  ELSE r

\* The left portion
SplitLeft(r, c) ==
  IF c.first_full_tile_x # r.x
  THEN LET dist == MIN2((c.first_full_tile_x - r.x), r.w)
           r1 == GenericCall(r, c, "left", OFFSET(c, r.x, r.y), r.x, r.y, dist, r.h)
       IN  IF dist = r.w
           THEN [r1 EXCEPT !.returned = TRUE]
           ELSE [r1 EXCEPT !.x = (r.x + dist), !.w = (r.w - dist)]
  ELSE r

\* as SplitRight, with the source pointer left at the working x
SplitRight_source_not_advanced(r, c) ==
  IF c.last_full_tile_x # (r.x + r.w)
  THEN LET dist == ((r.x + r.w) - c.last_full_tile_x)
           r1 == GenericCall(r, c, "right", OFFSET(c, r.x, r.y),
                             c.last_full_tile_x, r.y, dist, r.h)
       IN  [r1 EXCEPT !.w = (r.w - dist)]
  ELSE r

\* Finally, the right portion
SplitRight(r, c) ==
  IF c.last_full_tile_x # (r.x + r.w)
  THEN LET dist == ((r.x + r.w) - c.last_full_tile_x)
           r1 == GenericCall(r, c, "right", OFFSET(c, c.last_full_tile_x, r.y),
                             c.last_full_tile_x, r.y, dist, r.h)
       IN  [r1 EXCEPT !.w = (r.w - dist)]
  ELSE r

\* the dispatch on bpp to panfrost_store_tiled_image_<pixel_t>
SplitInterior(r, c) ==
  IF c.bpp \in {8, 16, 32, 64, 128}
  THEN [r EXCEPT !.st = TILED_STORE_TYPE(r.st, OFFSET(c, r.x, r.y), r.x, r.y, r.w, r.h,
                                         c.dst_stride, c.src_stride, c.bpp \div 8),
                 !.calls = Append(@, [step |-> "interior", x |-> r.x, y |-> r.y,
                                      w |-> r.w, h |-> r.h, src |-> OFFSET(c, r.x, r.y)])]
  ELSE r

\* The result is [st, calls, x, y, w, h, returned]: the memory state and the
\* calls made, in order, with the working rectangle at the end.
panfrost_store_tiled_image(st, x, y, w, h, dst_stride, src_stride, desc) ==
  LET r0 == [st |-> st, calls |-> << >>, x |-> x, y |-> y, w |-> w, h |-> h,
             returned |-> FALSE]
  IN  IF desc.width > 1
      THEN [r0 EXCEPT !.st = panfrost_access_tiled_image_generic(st, 0, x, y, w, h,
                                 dst_stride, src_stride, desc, TRUE),
                      !.calls = << [step |-> "compressed", x |-> x, y |-> y, w |-> w,
                                    h |-> h, src |-> 0] >>,
                      !.returned = TRUE]
      ELSE
        LET c == [desc |-> desc, bpp |-> desc.bits,
                  dst_stride |-> dst_stride, src_stride |-> src_stride,
                  orig_x |-> x, orig_y |-> y,
                  first_full_tile_x |-> (DIV_ROUND_UP(x, TILE_WIDTH) * TILE_WIDTH),
                  first_full_tile_y |-> (DIV_ROUND_UP(y, TILE_HEIGHT) * TILE_HEIGHT),
                  last_full_tile_x |-> ((((x + w)) \div TILE_WIDTH) * TILE_WIDTH),
                  last_full_tile_y |-> ((((y + h)) \div TILE_HEIGHT) * TILE_HEIGHT)]
            r1 == SplitTop(r0, c)
            r2 == IF r1.returned THEN r1 ELSE SplitBottom(r1, c)
            r3 == IF r2.returned THEN r2 ELSE SplitLeft(r2, c)
            r4 == IF r3.returned THEN r3 ELSE SplitRight(r3, c)
        IN  IF r4.returned THEN r4 ELSE SplitInterior(r4, c)

\* as panfrost_load_tiled_image, with the two strides not exchanged
panfrost_load_tiled_image_strides_kept(st, x, y, w, h, dst_stride, src_stride, desc) ==
  panfrost_access_tiled_image_generic(st, 0, x, y, w, h, dst_stride, src_stride, desc, FALSE)

\* load: the generic routine, once, over the whole rectangle, with the tiled
\* side (src) and the linear side (dst) in the generic routine's order
panfrost_load_tiled_image(st, x, y, w, h, dst_stride, src_stride, desc) ==
  panfrost_access_tiled_image_generic(st, 0, x, y, w, h, src_stride, dst_stride, desc, FALSE)

\* ------------------------------------------------------------------ state
VARIABLES
  pc,       \* "idle", "stored" (after store), "loaded" (after store then load),
            \* "fast" (after a direct call of the fast-path routine)
  desc,     \* format descriptor of the call
  x, y,     \* origin of the rectangle
  w, h,     \* extent of the rectangle
  tiled,    \* the tiled buffer
  linear,   \* the linear buffer written by load (L2)
  fault,    \* an access fell outside the buffers
  calls,    \* the calls made by the splitter of the last store, in order
  other,    \* rectangle of the second of two concurrent stores (the first
            \* one has x, y, w, h)
  wlist,    \* wlist[t]: the element copies << dest, source >> that concurrent
            \* store t makes, in the order it makes them
  done,     \* done[t]: how many of its copies concurrent store t has made
  padded    \* width W and height H of the tiled buffer, in elements: the
            \* dst_stride passed is sizeof(pixel_t) * W

vars == << pc, desc, x, y, w, h, tiled, linear, fault, calls, other, wlist, done, padded >>

conc_vars == << other, wlist, done, padded >>

\* the rectangles of the model lie inside the padded tiled buffer
Rectangles ==
  { r \in [x : Origins, y : Origins, w : Extents, h : Extents] :
      r.x + r.w <= TiledWidth /\ r.y + r.h <= TiledHeight }

\* Before the call: the arguments are chosen, the tiled buffer and L2 are
\* untouched.
Init ==
  /\ pc = "idle"
  /\ desc \in Formats
  /\ \E r \in Rectangles : x = r.x /\ y = r.y /\ w = r.w /\ h = r.h
  /\ tiled = BlankTiled
  /\ linear = BlankLinear
  /\ fault = FALSE
  /\ calls = << >>
  /\ other = [x |-> 0, y |-> 0, w |-> 0, h |-> 0]
  /\ wlist = << << >>, << >> >>
  /\ done = << 0, 0 >>
  /\ padded = [W |-> TiledWidth, H |-> TiledHeight]

\* store(dst = tiled, src = L, x, y, w, h, dst_stride, src_stride, format)
Store ==
  /\ pc = "idle"
  /\ \E res \in { panfrost_store_tiled_image(
                    MemState(tiled, LinearImage(ElemOf(desc)), fault, ElemOf(desc)),
                    x, y, w, h,
                    TiledStride(ElemOf(desc)), LinearStride(ElemOf(desc)), desc) } :
       /\ tiled' = res.st.tiled
       /\ fault' = res.st.fault
       /\ calls' = res.calls
  /\ pc' = "stored"
  /\ UNCHANGED << desc, x, y, w, h, linear, conc_vars >>

\* load(dst = L2, src = tiled, x, y, w, h, dst_stride, src_stride, format),
\* with the rectangle, format and strides of the store before it
Load ==
  /\ pc = "stored"
  /\ \E res \in { panfrost_load_tiled_image(
                    MemState(tiled, linear, fault, ElemOf(desc)),
                    x, y, w, h,
                    LinearStride(ElemOf(desc)), TiledStride(ElemOf(desc)), desc) } :
       /\ tiled' = res.tiled
       /\ linear' = res.linear
       /\ fault' = res.fault
  /\ pc' = "loaded"
  /\ UNCHANGED << desc, x, y, w, h, calls, conc_vars >>

\* a direct call of panfrost_store_tiled_image_<pixel_t> of the format's
\* element size, on a rectangle whose width is a multiple of the tile width
FastStore ==
  /\ pc = "idle"
  /\ desc.width = 1
  /\ w % TILE_WIDTH = 0
  /\ \E res \in { TILED_STORE_TYPE(
                    MemState(tiled, LinearImage(ElemOf(desc)), fault, ElemOf(desc)),
                    0, x, y, w, h,
                    TiledStride(ElemOf(desc)), LinearStride(ElemOf(desc)), ElemOf(desc)) } :
       /\ tiled' = res.tiled
       /\ fault' = res.fault
  /\ pc' = "fast"
  /\ UNCHANGED << desc, x, y, w, h, linear, calls, conc_vars >>

Next == Store \/ Load \/ FastStore

Spec == Init /\ [][Next]_vars

\* the direct calls of the fast-path routine alone
NextFast == FastStore

SpecFast == Init /\ [][NextFast]_vars

\* ------------------------------------------------------ concurrent stores
\* Two threads each run one panfrost_store_tiled_image on the same tiled
\* buffer, with the same format and strides, from the same linear image.
\* The codec takes no lock, so the element copies of the two calls interleave
\* freely.  Which copies a call makes, and in which order, depends on its
\* arguments only (no address is computed from memory contents), so they are
\* taken from a run of the call by itself.

\* small rectangles around the corner shared by four tiles
ConcOrigins == { v \in Origins : TILE_WIDTH - 1 <= v /\ v <= TILE_WIDTH }

SmallRectangles ==
  { r \in Rectangles : /\ r.x \in ConcOrigins /\ r.y \in ConcOrigins
                       /\ r.w \in 1..MaxConcExtent /\ r.h \in 1..MaxConcExtent }

\* rectangles that hold a whole tile
TileRectangles ==
  { r \in Rectangles : /\ r.x \in ConcOrigins /\ r.y \in ConcOrigins
                       /\ r.w \in TILE_WIDTH..(TILE_WIDTH + 1)
                       /\ r.h \in TILE_HEIGHT..(TILE_HEIGHT + 1) }

ConcFormats == { f \in Formats : f.bits = 32 \/ (f.bits = 64 /\ f.width > 1) }

Disjoint(r1, r2) ==
  \/ r1.x + r1.w <= r2.x \/ r2.x + r2.w <= r1.x
  \/ r1.y + r1.h <= r2.y \/ r2.y + r2.h <= r1.y

\* the call store(tiled, L, r.x, r.y, r.w, r.h, ...) of format f from state st
StoreRect(st, r, f) ==
  panfrost_store_tiled_image(st, r.x, r.y, r.w, r.h,
                             TiledStride(ElemOf(f)), LinearStride(ElemOf(f)), f).st

InitConc ==
  /\ pc = "concurrent"
  /\ desc \in ConcFormats
  /\ \E r1 \in SmallRectangles, r2 \in SmallRectangles \cup TileRectangles :
       /\ Disjoint(r1, r2)
       /\ x = r1.x /\ y = r1.y /\ w = r1.w /\ h = r1.h
       /\ other = r2
  /\ \E s1 \in { StoreRect(Logging(MemState(BlankTiled, LinearImage(ElemOf(desc)), FALSE,
                                              ElemOf(desc))),
                             [x |-> x, y |-> y, w |-> w, h |-> h], desc) },
        s2 \in { StoreRect(Logging(MemState(BlankTiled, LinearImage(ElemOf(desc)), FALSE,
                                              ElemOf(desc))),
                             other, desc) } :
       /\ wlist = << s1.log, s2.log >>
       /\ fault = (s1.fault \/ s2.fault)
  /\ done = << 0, 0 >>
  /\ padded = [W |-> TiledWidth, H |-> TiledHeight]
  /\ tiled = BlankTiled
  /\ linear = BlankLinear
  /\ calls = << >>

\* thread t makes its next element copy: *(pixel_t *) dest = *(pixel_t *) source
Write(t) ==
  /\ pc = "concurrent"
  /\ done[t] < Len(wlist[t])
  /\ LET copy == wlist[t][done[t] + 1]
     IN  tiled' = [tiled EXCEPT ![copy[1] \div ElemOf(desc)] =
                                  LinearImage(ElemOf(desc))[copy[2] \div ElemOf(desc)]]
  /\ done' = [done EXCEPT ![t] = @ + 1]
  /\ UNCHANGED << pc, desc, x, y, w, h, linear, fault, calls, other, wlist, padded >>

NextConc == Write(1) \/ Write(2)

SpecConc == InitConc /\ [][NextConc]_vars

\* ------------------------------------------- a whole image, tile by tile
\* A caller fills a tiled buffer of padded.W x padded.H elements with one
\* call of store per tile, tile after tile in row-major order, each from the
\* same linear image; dst_stride is sizeof(pixel_t) * padded.W.

\* widths and heights of a padded buffer: multiples of 16
PaddedSizes == { TILE_WIDTH * n : n \in 1..(TiledWidth \div TILE_WIDTH) }

\* side of a tile in elements: 1 << tile_shift, that is 16 pixels of a plain
\* format and 4 blocks of a compressed one
TileSide(f) == IF f.width > 1 THEN Shl(1, 2) ELSE Shl(1, 4)

InitTiles ==
  /\ pc = "tiles"
  /\ desc \in Formats
  /\ padded \in [W : PaddedSizes, H : PaddedSizes]
  /\ x = 0 /\ y = 0
  /\ w = TileSide(desc) * desc.width
  /\ h = TileSide(desc) * desc.height
  /\ tiled = [k \in 0..(padded.W * padded.H - 1) |-> Junk(k)]
  /\ linear = BlankLinear
  /\ fault = FALSE
  /\ calls = << >>
  /\ other = [x |-> 0, y |-> 0, w |-> 0, h |-> 0]
  /\ wlist = << << >>, << >> >>
  /\ done = << 0, 0 >>

\* store(dst = tiled, src = L, x, y, w, h, ...) of the tile at (x, y), then
\* on to the next tile
StoreTile ==
  /\ pc = "tiles"
  /\ y < padded.H
  /\ \E res \in { panfrost_store_tiled_image(
                    MemState(tiled, LinearImage(ElemOf(desc)), fault, ElemOf(desc)),
                    x, y, w, h,
                    ElemOf(desc) * padded.W, LinearStride(ElemOf(desc)), desc) } :
       /\ tiled' = res.st.tiled
       /\ fault' = res.st.fault
       /\ calls' = res.calls
  /\ IF x + TileSide(desc) < padded.W
     THEN x' = x + TileSide(desc) /\ y' = y
     ELSE x' = 0 /\ y' = y + TileSide(desc)
  /\ UNCHANGED << pc, desc, w, h, linear, other, wlist, done, padded >>

NextTiles == StoreTile

SpecTiles == InitTiles /\ [][NextTiles]_vars

\* ------------------------------------------------ coordinates past 2^16
\* A store whose rectangle lies around x = 2^16 in a buffer wider than 2^16
\* elements, or around y = 2^16 in a buffer higher than 2^16 elements.  The
\* model keeps the elements of the first two and of the last three tile
\* columns and tile rows of the buffer; an access to any other element raises
\* the fault flag.
WideExtent == U16 + 2 * TILE_WIDTH

NarrowExtent == 2 * TILE_WIDTH

WideOrigins == { U16 - 1, U16, U16 + 1 }

NarrowOrigins == { v \in Origins : v < TILE_WIDTH - 1 }

WideRectangles ==
  { r \in [x : NarrowOrigins \cup WideOrigins, y : NarrowOrigins \cup WideOrigins,
           w : Extents, h : Extents] :
      (r.x \in WideOrigins) # (r.y \in WideOrigins) }

\* the tiles kept, along an axis of n elements
WindowTiles(n) ==
  { t \in 0..(n \div TILE_WIDTH - 1) : t < 2 \/ t >= n \div TILE_WIDTH - 3 }

WindowSlots(W, H) ==
  { (ty * TILE_HEIGHT) * W + tx * PIXELS_PER_TILE + k :
      tx \in WindowTiles(W), ty \in WindowTiles(H), k \in 0..(PIXELS_PER_TILE - 1) }

InitWide ==
  /\ pc = "wide"
  /\ desc \in PlainFormats
  /\ \E r \in WideRectangles : x = r.x /\ y = r.y /\ w = r.w /\ h = r.h
  /\ padded = [W |-> IF x \in WideOrigins THEN WideExtent ELSE NarrowExtent,
               H |-> IF y \in WideOrigins THEN WideExtent ELSE NarrowExtent]
  /\ tiled = [k \in WindowSlots(padded.W, padded.H) |-> Junk(k)]
  /\ linear = BlankLinear
  /\ fault = FALSE
  /\ calls = << >>
  /\ other = [x |-> 0, y |-> 0, w |-> 0, h |-> 0]
  /\ wlist = << << >>, << >> >>
  /\ done = << 0, 0 >>

\* store(dst = tiled, src = L, x, y, w, h, dst_stride, src_stride, format)
WideStore ==
  /\ pc = "wide"
  /\ \E res \in { panfrost_store_tiled_image(
                    MemState(tiled, LinearImage(ElemOf(desc)), fault, ElemOf(desc)),
                    x, y, w, h,
                    ElemOf(desc) * padded.W, LinearStride(ElemOf(desc)), desc) } :
       /\ tiled' = res.st.tiled
       /\ fault' = res.st.fault
       /\ calls' = res.calls
  /\ pc' = "wide_stored"
  /\ UNCHANGED << desc, x, y, w, h, linear, conc_vars >>

NextWide == WideStore

SpecWide == InitWide /\ [][NextWide]_vars

\* ============================================================== properties
Elem == ElemOf(desc)

Plain == desc.width = 1

\* number of element columns and rows the rectangle holds: pixels of a plain
\* format, blocks of a compressed one
ElemCols == DIV_ROUND_UP(w, desc.width)

ElemRows == DIV_ROUND_UP(h, desc.height)

\* byte offset in the linear buffer of the element in column i, row j of the
\* rectangle
LinearOff(i, j) == j * LinearStride(Elem) + i * Elem

\* the memory state before a store of the call's format
BeforeStore == MemState(BlankTiled, LinearImage(Elem), FALSE, Elem)

\* the elements of the tiled buffer that hold something stored
WrittenSlots == { k \in TiledSlots : tiled[k] # Junk(k) }

GenericAlone ==
  panfrost_access_tiled_image_generic(BeforeStore, 0, x, y, w, h,
      TiledStride(Elem), LinearStride(Elem), desc, TRUE)

C2_SplitterEqualsGeneric ==
  (pc = "stored" /\ Plain) =>
    \E generic \in { GenericAlone } :
      /\ tiled = generic.tiled
      /\ fault = generic.fault

\* a rectangle unaligned on all four edges with a full tile inside: all five
\* steps ran
C2_Witness ==
  /\ pc = "stored" /\ Plain
  /\ x = 15 /\ y = 15 /\ w = 18 /\ h = 18
  /\ Len(calls) = 5
  /\ tiled = GenericAlone.tiled

\* ---------------------------------------------------------------------- C3
\* C3: for every element size and every rectangle with x and w multiples of
\* 16, the fast-path routine leaves the tiled buffer that the generic store
\* (tile_shift 4) leaves: same offsets written, same values.
C3_FastEqualsGeneric ==
  (pc = "fast" /\ x % 16 = 0 /\ w % 16 = 0) =>
    \E generic \in { GenericAlone } :
      /\ tiled = generic.tiled
      /\ fault = generic.fault

C3_Witness ==
  /\ pc = "fast" /\ desc.bits = 128
  /\ x = 16 /\ y = 15 /\ w = 16 /\ h = 18
  /\ Cardinality(WrittenSlots) = 16 * 18

\* ---------------------------------------------------------------------- C4
\* tiled byte offset of pixel (px, py) as the claim states it
TiledAddress(px, py, elem, dst_stride) ==
  AndNot(py, 15) * dst_stride
    + elem * (Shr(px, 4) * 256 + Xor(bit_duplication[And(py, 15)], space_4[And(px, 15)]))

\* C4: for a plain format, store puts the source element of pixel (x+i, y+j)
\* at byte offset (py AND NOT 15) * dst_stride + elem * ((px >> 4) * 256 +
\* (duplicate(py AND 15) XOR space(px AND 15))); in a single tile of 4-byte
\* pixels, pixel (3, 2) is at byte offset 36 and pixel (5, 9) at 840.
C4_TiledAddress ==
  (pc = "stored" /\ Plain) =>
    /\ \A i \in 0..(w - 1), j \in 0..(h - 1) :
         At(tiled, TiledAddress(x + i, y + j, Elem, TiledStride(Elem)), Elem) = LinearOff(i, j)
    /\ (desc.bits = 32 /\ x = 0 /\ y = 0 /\ w = 16 /\ h = 16) =>
         /\ At(tiled, 36, 4) = LinearOff(3, 2)
         /\ At(tiled, 840, 4) = LinearOff(5, 9)
         /\ Xor(bit_duplication[9], space_4[5]) * 4 = 840

C4_Witness ==
  /\ pc = "stored" /\ desc.bits = 32 /\ Plain
  /\ x = 0 /\ y = 0 /\ w = 16 /\ h = 16
  /\ At(tiled, 36, 4) = LinearOff(3, 2)

\* ---------------------------------------------------------------------- C6
\* tiled byte offset of the block at block coordinates (bx, by) as the claim
\* states it
BlockAddress(bx, by, elem, stride) ==
  AndNot(by, 3) * stride
    + elem * (Shr(bx, 2) * 16 + Xor(bit_duplication[And(by, 3)], space_4[And(bx, 3)]))

\* C6: for a format of 4x4 blocks, store and load copy whole blocks of
\* bits / 8 bytes; the block at block coordinates (bx, by) is at tiled byte
\* offset (by AND NOT 3) * stride + elem * ((bx >> 2) * 16 + (duplicate(by
\* AND 3) XOR space(bx AND 3))), and ceil(w / 4) x ceil(h / 4) blocks are
\* copied.
C6_CompressedBlocks ==
  (pc \in {"stored", "loaded"} /\ desc.width = 4 /\ desc.height = 4) =>
    /\ ~fault
    /\ \A i \in 0..(ElemCols - 1), j \in 0..(ElemRows - 1) :
         At(tiled, BlockAddress(x + i, y + j, Elem, TiledStride(Elem)), Elem) = LinearOff(i, j)
    /\ Cardinality(WrittenSlots) = DIV_ROUND_UP(w, 4) * DIV_ROUND_UP(h, 4)
    /\ pc = "loaded" =>
         /\ \A i \in 0..(ElemCols - 1), j \in 0..(ElemRows - 1) :
              At(linear, LinearOff(i, j), Elem) = LinearOff(i, j)
         /\ Cardinality({ k \in LinearSlots : linear[k] # Junk(k) })
              = DIV_ROUND_UP(w, 4) * DIV_ROUND_UP(h, 4)

C6_Witness ==
  /\ pc = "loaded" /\ desc.width = 4 /\ desc.bits = 64
  /\ x = 17 /\ y = 15 /\ w = 17 /\ h = 18
  /\ Cardinality(WrittenSlots) = 25
  /\ At(tiled, BlockAddress(21, 19, 8, TiledStride(8)), 8) = LinearOff(4, 4)

\* ---------------------------------------------------------------------- C7
first_full_tile(v) == DIV_ROUND_UP(v, 16) * 16

\* the rectangle holds no complete tile-aligned 16x16 tile
NoFullTile ==
  \/ first_full_tile(x) + 16 > x + w
  \/ first_full_tile(y) + 16 > y + h

InCall(c, px, py) ==
  /\ c.x <= px /\ px < c.x + c.w
  /\ c.y <= py /\ py < c.y + c.h

\* C7: when the rectangle of a plain format holds no complete aligned tile
\* (a 1x1 rectangle in particular), store writes every pixel through the
\* generic routine, the fast-path step writes nothing, and the tiled buffer
\* is the one the generic routine alone leaves.
C7_NoFullTile ==
  (pc = "stored" /\ Plain /\ NoFullTile) =>
    /\ \A k \in DOMAIN calls :
         calls[k].step = "interior" => (calls[k].w = 0 \/ calls[k].h = 0)
    /\ \A i \in 0..(w - 1), j \in 0..(h - 1) :
         \E k \in DOMAIN calls :
           calls[k].step # "interior" /\ InCall(calls[k], x + i, y + j)
    /\ tiled = GenericAlone.tiled

C7_Witness ==
  /\ pc = "stored" /\ Plain /\ NoFullTile
  /\ x = 15 /\ y = 17 /\ w = 1 /\ h = 1
  /\ Len(calls) = 1 /\ calls[1].step = "top"
  /\ WrittenSlots = { TiledAddress(15, 17, Elem, TiledStride(Elem)) \div Elem }

\* ---------------------------------------------------------------------- C9
StepRank(step) ==
  CASE step = "top" -> 1 [] step = "bottom" -> 2 [] step = "left" -> 3
    [] step = "right" -> 4 [] step = "interior" -> 5 [] OTHER -> 0

\* C9: for a plain format, the steps of store run in the order top, bottom,
\* left, right, interior; every pixel of the rectangle lies in the
\* sub-rectangle of exactly one step, no sub-rectangle reaches outside the
\* rectangle, and exactly the w x h elements of the rectangle are written.
C9_EachPixelOnce ==
  (pc = "stored" /\ Plain) =>
    /\ \A a, b \in DOMAIN calls :
         a < b => StepRank(calls[a].step) < StepRank(calls[b].step)
    /\ \A i \in 0..(w - 1), j \in 0..(h - 1) :
         Cardinality({ k \in DOMAIN calls : InCall(calls[k], x + i, y + j) }) = 1
    /\ \A k \in DOMAIN calls :
         (calls[k].w > 0 /\ calls[k].h > 0) =>
           /\ x <= calls[k].x /\ calls[k].x + calls[k].w <= x + w
           /\ y <= calls[k].y /\ calls[k].y + calls[k].h <= y + h
    /\ Cardinality(WrittenSlots) = w * h
    /\ ~fault

C9_Witness ==
  /\ pc = "stored" /\ Plain /\ desc.bits = 16
  /\ x = 15 /\ y = 15 /\ w = 18 /\ h = 18
  /\ Len(calls) = 5
  /\ \A k \in 1..5 : StepRank(calls[k].step) = k
  /\ Cardinality(WrittenSlots) = 18 * 18

\* --------------------------------------------------------------------- C10
\* C10: whenever store reaches the fast-path dispatch, the working x, y, w
\* and h are multiples of 16, and the source pointer passed is the original
\* one advanced by (y - orig_y) rows and (x - orig_x) elements.
C10_AlignedInterior ==
  pc = "stored" =>
    \A k \in DOMAIN calls :
      calls[k].step = "interior" =>
        /\ calls[k].x % 16 = 0 /\ calls[k].y % 16 = 0
        /\ calls[k].w % 16 = 0 /\ calls[k].h % 16 = 0
        /\ calls[k].src = (calls[k].y - y) * LinearStride(Elem) + (calls[k].x - x) * Elem

C10_Witness ==
  /\ pc = "stored" /\ desc.bits = 64 /\ Plain
  /\ x = 15 /\ y = 15 /\ w = 18 /\ h = 17
  /\ calls[Len(calls)] = [step |-> "interior", x |-> 16, y |-> 16, w |-> 16, h |-> 16,
                          src |-> LinearStride(8) + 8]

\* ---------------------------------------------------------------------- C5
BothDone == pc = "concurrent" /\ done[1] = Len(wlist[1]) /\ done[2] = Len(wlist[2])

ThisRect == [x |-> x, y |-> y, w |-> w, h |-> h]

\* the bytes written by the copies of thread t
WrittenBytes(t) ==
  UNION { copy[1]..(copy[1] + Elem - 1) : copy \in { wlist[t][k] : k \in DOMAIN wlist[t] } }

\* C5: two stores on disjoint rectangles of the same tiled buffer, their
\* element writes interleaved in any way, leave the buffer that the two calls
\* leave when run one after the other, in either order; no byte is written
\* by both.
C5_DisjointStoresCommute ==
  BothDone =>
    /\ tiled = StoreRect(StoreRect(BeforeStore, ThisRect, desc), other, desc).tiled
    /\ tiled = StoreRect(StoreRect(BeforeStore, other, desc), ThisRect, desc).tiled
    /\ WrittenBytes(1) \cap WrittenBytes(2) = {}
    /\ ~fault

\* both calls wrote, one of them through the fast path next to the other's
\* pixel
C5_Witness ==
  /\ BothDone /\ Plain
  /\ x = 15 /\ y = 16 /\ w = 1 /\ h = 2
  /\ other = [x |-> 16, y |-> 16, w |-> 17, h |-> 16]
  /\ Len(wlist[1]) = 2 /\ Len(wlist[2]) = 17 * 16

\* ---------------------------------------------------------------------- C8
\* the value | y3 | x3^y3 | y2 | x2^y2 | y1 | x1^y1 | y0 | x0^y0 |
RECURSIVE BitPattern(_, _, _)
BitPattern(lx, ly, i) ==
  IF i > 3 THEN 0
  ELSE Bit(ly, i) * Pow2(2 * i + 1) + ((Bit(lx, i) + Bit(ly, i)) % 2) * Pow2(2 * i)
         + BitPattern(lx, ly, i + 1)

\* element slot of pixel (px, py) when its index within the tile is the bit
\* pattern of its local coordinates
PatternSlot(px, py) ==
  AndNot(py, 15) * TiledWidth + Shr(px, 4) * PIXELS_PER_TILE
    + BitPattern(And(px, 15), And(py, 15), 0)

\* the two tables spread the bits of a nibble as the file comment says
TablesInterleave ==
  /\ \A n \in 0..15 :
       /\ bit_duplication[n] \in 0..255
       /\ space_4[n] \in 0..255
       /\ \A i \in 0..3 :
            /\ Bit(bit_duplication[n], 2 * i) = Bit(n, i)
            /\ Bit(bit_duplication[n], 2 * i + 1) = Bit(n, i)
            /\ Bit(space_4[n], 2 * i) = Bit(n, i)
            /\ Bit(space_4[n], 2 * i + 1) = 0
  /\ \A lx \in 0..15, ly \in 0..15 :
       Xor(bit_duplication[ly], space_4[lx]) = BitPattern(lx, ly, 0)

\* C8: bit_duplication[n] has bits 2i and 2i+1 equal to bit i of n;
\* space_4[n] has bit 2i equal to bit i of n and every odd bit zero; so
\* bit_duplication[ly] XOR space_4[lx] is the 8-bit value
\* | y3 | x3^y3 | y2 | x2^y2 | y1 | x1^y1 | y0 | x0^y0 |, and that value is
\* the index within its tile of every pixel stored.
C8_InterleaveTables ==
  /\ TablesInterleave
  /\ (pc = "stored" /\ Plain) =>
       \A i \in 0..(w - 1), j \in 0..(h - 1) :
         tiled[PatternSlot(x + i, y + j)] = LinearOff(i, j)

\* a whole tile stored: each of its pixels sits at the element whose index
\* has the bit pattern of the pixel's local coordinates
C8_Witness ==
  /\ pc = "stored" /\ desc.bits = 8 /\ Plain
  /\ x = 16 /\ y = 0 /\ w = 16 /\ h = 16
  /\ \A lx \in 0..15, ly \in 0..15 :
       tiled[PIXELS_PER_TILE + Xor(bit_duplication[ly], space_4[lx])] = LinearOff(lx, ly)

\* --------------------------------------------------------------------- C11
\* the generic store over the rectangle moved left to the tile column that
\* holds x, that is with the low four bits of x cleared
GenericFromTileColumn ==
  panfrost_access_tiled_image_generic(BeforeStore, 0, AndNot(x, 15), y, w, h,
      TiledStride(Elem), LinearStride(Elem), desc, TRUE)

EmptyRectangle == w = 0 \/ h = 0

\* C11 as stated: for every rectangle whose width is a multiple of 16,
\* whatever the low four bits of x, the fast-path routine leaves the tiled
\* buffer that the generic store leaves for the same input.
C11_FastAnyOriginStated ==
  (pc = "fast" /\ w % 16 = 0) =>
    /\ tiled = GenericAlone.tiled
    /\ fault = GenericAlone.fault

\* C11 amended: for every rectangle whose width is a multiple of 16, the
\* fast-path routine takes the tile-column base from x >> 4 and nothing else
\* from x: it leaves the tiled buffer that the generic store leaves for the
\* rectangle starting at x with its low four bits cleared, which is the
\* buffer the generic store leaves for the same input exactly when x is a
\* multiple of 16 or the rectangle is empty.
C11_FastIgnoresLowBitsOfX ==
  (pc = "fast" /\ w % 16 = 0) =>
    /\ \E generic \in { GenericFromTileColumn } :
         /\ tiled = generic.tiled
         /\ fault = generic.fault
    /\ (tiled = GenericAlone.tiled) <=> (x % 16 = 0 \/ EmptyRectangle)

\* x = 17: the first pixel of each row is written where pixel (16, y + j)
\* belongs, and not where pixel (17, y + j) does
C11_Witness ==
  /\ pc = "fast" /\ desc.bits = 32
  /\ x = 17 /\ y = 15 /\ w = 16 /\ h = 2
  /\ At(tiled, TiledAddress(16, 16, 4, TiledStride(4)), 4) = LinearOff(0, 1)
  /\ At(tiled, TiledAddress(17, 16, 4, TiledStride(4)), 4) = LinearOff(1, 1)
  /\ tiled # GenericAlone.tiled

\* --------------------------------------------------------------------- C12
\* a step of the behaviour is the call of load
LoadStep == pc = "stored" /\ pc' = "loaded"

\* tiled byte offset of the element at element coordinates (px, py): a pixel
\* on the grid of 16x16 tiles, a compressed block on the grid of 4x4 tiles
ElementAddress(px, py) ==
  IF Plain THEN TiledAddress(px, py, Elem, TiledStride(Elem))
  ELSE BlockAddress(px, py, Elem, TiledStride(Elem))

\* load over cols x rows elements: each element (i, j) of L2 receives the
\* tiled element of (x + i, y + j), every other element of L2 and the whole
\* tiled buffer are left as they were, and no access leaves the buffers
LoadCopies(cols, rows) ==
  /\ tiled' = tiled
  /\ fault' = fault
  /\ \A i \in 0..(cols - 1), j \in 0..(rows - 1) :
       At(linear', LinearOff(i, j), Elem) = At(tiled, ElementAddress(x + i, y + j), Elem)
  /\ \E inside \in { { LinearOff(i, j) : i \in 0..(cols - 1), j \in 0..(rows - 1) } } :
       \A k \in LinearSlots : k * Elem \notin inside => linear'[k] = linear[k]

C13_OneCoordinateUnit ==
  (pc \in {"stored", "loaded"} /\ ~Plain) =>
    /\ Cardinality(WrittenSlots) = w * h
    /\ \A i \in 0..(w - 1), j \in 0..(h - 1) :
         At(tiled, BlockAddress(x + i, y + j, Elem, TiledStride(Elem)), Elem) = LinearOff(i, j)
    /\ pc = "loaded" =>
         \A i \in 0..(w - 1), j \in 0..(h - 1) :
           At(linear, LinearOff(i, j), Elem) = LinearOff(i, j)

\* --------------------------------------------------------------------- C14
\* tiled byte offset of the element at (px, py) in a buffer W elements wide
AddressIn(px, py, W) ==
  IF Plain THEN TiledAddress(px, py, Elem, Elem * W)
  ELSE BlockAddress(px, py, Elem, Elem * W)

\* the elements of the tiles stored so far
StoredSoFar ==
  { p \in (0..(padded.W - 1)) \X (0..(padded.H - 1)) :
      p[2] < y \/ (p[2] < y + TileSide(desc) /\ p[1] < x) }

\* the elements of the buffer that hold something stored
Written == { k \in DOMAIN tiled : tiled[k] # Junk(k) }

\* within one tile the index map is one-to-one and onto
TileMapBijective ==
  /\ { Xor(bit_duplication[ly], space_4[lx]) : lx \in 0..15, ly \in 0..15 } = 0..255
  /\ { Xor(bit_duplication[ly], space_4[lx]) : lx \in 0..3, ly \in 0..3 } = 0..15

\* distinct elements of a W x H buffer have distinct offsets, each the start
\* of an element inside the H * dst_stride bytes of the buffer
DisjointInside(W, H) ==
  LET addresses == { AddressIn(px, py, W) : px \in 0..(W - 1), py \in 0..(H - 1) }
  IN  /\ Cardinality(addresses) = W * H
      /\ \A a \in addresses : a % Elem = 0 /\ 0 <= a /\ a + Elem <= H * (Elem * W)

\* C14: (lx, ly) -> bit_duplication[ly] XOR space_4[lx] maps the 16x16 local
\* coordinates one-to-one onto 0..255, and the 4x4 ones onto 0..15; with
\* dst_stride = elem * W, W and H multiples of 16, distinct elements (x, y),
\* x < W, y < H, have disjoint ranges of elem bytes inside [0, H * dst_stride);
\* the stores of the tiles of such a buffer write each element at its own
\* offset, never outside the buffer, and fill the buffer exactly.
C14_AddressInjective ==
  /\ TileMapBijective
  /\ pc = "tiles" =>
       /\ DisjointInside(padded.W, padded.H)
       /\ ~fault
       /\ Written = { AddressIn(p[1], p[2], padded.W) \div Elem : p \in StoredSoFar }
       /\ Cardinality(Written) = Cardinality(StoredSoFar)
       /\ y = padded.H => Written = DOMAIN tiled

\* every tile of a 32 x 48 buffer of 4-byte pixels stored: each of the 1536
\* elements of the buffer holds a pixel
C14_Witness ==
  /\ pc = "tiles" /\ Plain /\ desc.bits = 32
  /\ padded = [W |-> 32, H |-> 48]
  /\ y = 48
  /\ Written = 0..1535

\* --------------------------------------------------------------------- C15
\* the generic store over the whole rectangle, from the blank buffer of the
\* call
GenericWide ==
  panfrost_access_tiled_image_generic(
      MemState([k \in DOMAIN tiled |-> Junk(k)], LinearImage(Elem), FALSE, Elem),
      0, x, y, w, h, Elem * padded.W, LinearStride(Elem), desc, TRUE)

\* C15: the interior's x, y, w, h reach the fast-path routine as the
\* splitter computed them, so also for a rectangle whose interior has a
\* coordinate of 65536 or more store leaves every pixel at the tiled address
\* where the generic routine puts it.
C15_NoWidthLoss ==
  pc = "wide_stored" =>
    /\ tiled = GenericWide.tiled
    /\ fault = GenericWide.fault

====
